---- MODULE Spec2Model ----
(***************************************************************************)
(* PhotoBatcher (src/main.py): the /process handler, its staging           *)
(* directories, and the pure helpers slugify_title and                     *)
(* resize_for_platform.                                                    *)
(*                                                                         *)
(* The handler is an `async def`: it runs on the event loop and gives up   *)
(* control only at `await f.read()` (line 526).  Each action below is one  *)
(* run of the handler between two such points.  Filesystem semantics are   *)
(* POSIX: a file that is open for writing survives the removal of its      *)
(* directory entry, and what is written to it afterwards is not visible    *)
(* under the directory.                                                    *)
(***************************************************************************)
EXTENDS Integers, Sequences, FiniteSets, TLC

VARIABLES
    pc,            \* per client: where its /process handler stands
    req,           \* per client: the request being handled (files, platforms, item_title)
    idx,           \* per client: index of the upload the save loop is at
    handle,        \* per client: the file the save loop holds open
    resp,          \* per client: the response of the handler
    touched,       \* per client: has the current request modified staging state
    found,         \* per client: the requests whose files staging held when this one came in
    uploadDir,     \* the directory UPLOAD_DIR
    processedDir,  \* the directory PROCESSED_DIR
    started,       \* number of requests received so far (gives request ids)
    rz,            \* resize_for_platform under test: input, platform, output
    sl             \* slugify_title under test: input, output, output of output

vars == <<pc, req, idx, handle, resp, touched, found, uploadDir, processedDir, started, rz, sl>>

procVars == <<pc, req, idx, handle, resp, touched, found, uploadDir, processedDir, started>>

----------------------------------------------------------------------------
(* Bounds of the model *)

MaxRequests == 3     \* requests received in one run
MaxLen == 4          \* characters in a title
DimStep == 397       \* spacing of the sampled image dimensions
MaxDim == 3300       \* largest sampled image dimension

(* The maximum image count of a batch request (spec.md section 3). *)
MAX_IMAGES == 24

Clients == {"c1", "c2"}

Max(a, b) == IF a >= b THEN a ELSE b

Abs(a) == IF a >= 0 THEN a ELSE 0 - a

----------------------------------------------------------------------------
(* slugify_title, over strings as sequences of characters *)

Upper == {"A","B","C","D","E","F","G","H","I","J","K","L","M",
          "N","O","P","Q","R","S","T","U","V","W","X","Y","Z"}

Lower == {"a","b","c","d","e","f","g","h","i","j","k","l","m",
          "n","o","p","q","r","s","t","u","v","w","x","y","z"}

Digit == {"0","1","2","3","4","5","6","7","8","9"}

(* The class [A-Za-z0-9_\-] of the regular expression on line 31. *)
SlugChars == Upper \cup Lower \cup Digit \cup {"_", "-"}

(* What str.strip() removes: whitespace. *)
Whitespace == {" ", "\t", "\n"}

RECURSIVE LStrip(_, _)
LStrip(s, cs) ==
    IF s # <<>> /\ Head(s) \in cs THEN LStrip(Tail(s), cs) ELSE s

RECURSIVE RStrip(_, _)
RStrip(s, cs) ==
    IF s # <<>> /\ s[Len(s)] \in cs THEN RStrip(SubSeq(s, 1, Len(s) - 1), cs) ELSE s

(* str.strip(chars) *)
Strip(s, cs) == RStrip(LStrip(s, cs), cs)

(* str.replace(" ", "_") *)
ReplaceSpaces(s) == [i \in 1..Len(s) |-> IF s[i] = " " THEN "_" ELSE s[i]]

(* re.sub(r"[^A-Za-z0-9_\-]", "", s) *)
RECURSIVE DropDisallowed(_)
DropDisallowed(s) ==
    IF s = <<>> THEN <<>>
    ELSE IF Head(s) \in SlugChars THEN <<Head(s)>> \o DropDisallowed(Tail(s))
    ELSE DropDisallowed(Tail(s))

(* re.sub(r"_+", "_", s) *)
RECURSIVE CollapseUnderscores(_)
CollapseUnderscores(s) ==
    IF Len(s) < 2 THEN s
    ELSE IF s[1] = "_" /\ s[2] = "_" THEN CollapseUnderscores(Tail(s))
    ELSE <<Head(s)>> \o CollapseUnderscores(Tail(s))

Batch == <<"B", "a", "t", "c", "h">>

NoTitle == <<"<None>">>

(* slugify_title without the .strip("_") of line 32 *)
slugify_title_NoEdgeStrip(title) ==
    LET t1 == Strip(IF title = NoTitle THEN <<>> ELSE title, Whitespace)
    IN  IF t1 = <<>> THEN Batch
        ELSE LET t4 == CollapseUnderscores(DropDisallowed(ReplaceSpaces(t1)))
             IN  IF t4 = <<>> THEN Batch ELSE t4

slugify_title(title) ==
    LET t1 == Strip(IF title = NoTitle THEN <<>> ELSE title, Whitespace)
    IN  IF t1 = <<>> THEN Batch
        ELSE LET t2 == ReplaceSpaces(t1)
                 t3 == DropDisallowed(t2)
                 t4 == Strip(CollapseUnderscores(t3), {"_"})
             IN  IF t4 = <<>> THEN Batch ELSE t4

----------------------------------------------------------------------------
(* resize_for_platform and PIL's Image.thumbnail *)

EBAY_SIZE == 1600

POSHMARK_SIZE == 1080

MERCARI_SIZE == 1200

Recognized == {"ebay", "poshmark", "mercari"}

(* The box of lines 54-59; only asked for a recognized platform. *)
max_size(platform) ==
    IF platform = "ebay" THEN EBAY_SIZE
    ELSE IF platform = "poshmark" THEN POSHMARK_SIZE
    ELSE MERCARI_SIZE

(* A thumbnail that leaves the picture alone as soon as one side fits *)
thumbnail_size_OneSideFits(w, h, x, y) ==
    IF x >= w \/ y >= h THEN <<w, h>>
    ELSE IF x * h >= w * y
    THEN <<Max((y * w) \div h, 1), y>>
    ELSE <<x, Max((x * h) \div w, 1)>>

(* A thumbnail that always scales to the box, enlarging a small picture *)
thumbnail_size_Upscales(w, h, x, y) ==
    IF x * h >= w * y
    THEN <<Max((y * w) \div h, 1), y>>
    ELSE <<x, Max((x * h) \div w, 1)>>

(* Image.thumbnail((x, y)) of Pillow (7.1 and later) on a loaded image of   *)
(* size w x h: nothing when the image already fits the box; otherwise the   *)
(* side that limits is set to the box and the other to whichever of the     *)
(* floor and the ceiling of its exact value gives the closer aspect ratio   *)
(* (the floor on a tie), at least 1.  Ratios are compared exactly.          *)
thumbnail_size(w, h, x, y) ==
    IF x >= w /\ y >= h THEN <<w, h>>
    ELSE IF x * h >= w * y
    THEN LET fl == (y * w) \div h
             ce == IF (y * w) % h = 0 THEN fl ELSE fl + 1
             n  == IF Abs(w * y - fl * h) <= Abs(w * y - ce * h) THEN fl ELSE ce
         IN  <<Max(n, 1), y>>
    ELSE LET fl == (x * h) \div w
             ce == IF (x * h) % w = 0 THEN fl ELSE fl + 1
             n  == IF fl = 0 THEN fl
                   ELSE IF Abs(w * fl - x * h) * ce <= Abs(w * ce - x * h) * fl
                   THEN fl ELSE ce
         IN  <<x, Max(n, 1)>>

thumbnail(image, x, y) ==
    LET sz == thumbnail_size(image.w, image.h, x, y)
    IN  [image EXCEPT !.w = sz[1], !.h = sz[2]]

resize_for_platform(image, platform) ==
    IF platform \in Recognized
    THEN thumbnail(image, max_size(platform), max_size(platform))
    ELSE image

----------------------------------------------------------------------------
(* Files, images and the two staging directories *)

(* A filename "<dir/>img<base>.<ext>"; sub says that it names a directory   *)
(* that does not exist under UPLOAD_DIR, so that open(..., "wb") raises.    *)
Name(base, ext, sub) == [base |-> base, ext |-> ext, sub |-> sub]

(* One part of the multipart upload: its filename and its bytes, of which   *)
(* the model keeps whether Image.open can decode them and, if so, the size, *)
(* the mode and the EXIF orientation of the picture.                        *)
Upload(name, ok, w, h, mode, orient) ==
    [name |-> name, ok |-> ok, w |-> w, h |-> h, mode |-> mode, orient |-> orient]

(* The bytes of a file under UPLOAD_DIR, with the request and the upload    *)
(* they came from.                                                          *)
Bytes(id, i, f) ==
    [owner |-> id, idx |-> i, ok |-> f.ok, w |-> f.w, h |-> f.h,
     mode |-> f.mode, orient |-> f.orient]

(* A file that open(..., "wb") has created or truncated and nothing has     *)
(* been written to.                                                         *)
EmptyFile ==
    [owner |-> 0, idx |-> 0, ok |-> FALSE, w |-> 0, h |-> 0, mode |-> "", orient |-> 1]

NoFiles == <<>>

NoDir == [exists |-> FALSE, folders |-> {}, files |-> NoFiles]

EmptyDir == [exists |-> TRUE, folders |-> {}, files |-> NoFiles]

(* os.makedirs(..., exist_ok=True) alone: what the directory holds stays *)
CleanDir_NoRmtree(d) == [d EXCEPT !.exists = TRUE]

(* shutil.rmtree if the directory exists, then os.makedirs (lines 514-520)  *)
CleanDir(d) == EmptyDir

(* f @@ g of TLC, g's values kept where both are defined *)
Overwrite(f, g) ==
    [k \in (DOMAIN f) \cup (DOMAIN g) |-> IF k \in DOMAIN g THEN g[k] ELSE f[k]]

NoHandle == [open |-> FALSE, name |-> Name(0, "", FALSE), linked |-> FALSE]

NonePlatforms == <<"<None>">>

NoReq == [id |-> 0, files |-> <<>>, platforms |-> NonePlatforms, item_title |-> NoTitle]

NoResp == [status |-> 0, parent |-> <<>>, entries |-> {}]

----------------------------------------------------------------------------
(* The pipeline of one (platform, file) pair: lines 537-555 *)

Stage(image, op) == [image EXCEPT !.hist = Append(@, op)]

(* Image.open on the bytes of a staged file *)
ImageOpen(b) ==
    [owner |-> b.owner, idx |-> b.idx, w |-> b.w, h |-> b.h,
     mode |-> b.mode, orient |-> b.orient, hist |-> <<>>]

(* ImageOps.exif_transpose: orientations 5 to 8 turn the picture by a       *)
(* quarter, which swaps width and height; the tag is removed.               *)
exif_transpose(image) ==
    Stage(IF image.orient \in 5..8
          THEN [image EXCEPT !.w = image.h, !.h = image.w, !.orient = 1]
          ELSE [image EXCEPT !.orient = 1],
          "exif_transpose")

convert_RGB(image) == Stage([image EXCEPT !.mode = "RGB"], "convert")

enhance_image_export(image) ==
    Stage(Stage(Stage(image, "Brightness"), "Contrast"), "Sharpness")

save_JPEG(image) == Stage(image, "save")

(* The pipeline with the resize ahead of the enhancement *)
Pipeline_ResizeFirst(b, platform) ==
    LET img1 == exif_transpose(ImageOpen(b))
        img2 == convert_RGB(img1)
        img3 == Stage(resize_for_platform(img2, platform), "resize_for_platform")
        img4 == enhance_image_export(img3)
    IN  save_JPEG(img4)

Pipeline(b, platform) ==
    LET img1 == exif_transpose(ImageOpen(b))
        img2 == convert_RGB(img1)
        img3 == enhance_image_export(img2)
        img4 == Stage(resize_for_platform(img3, platform), "resize_for_platform")
    IN  save_JPEG(img4)

(* os.path.splitext and f"{base_name}.jpg" (lines 545-546) *)
out_name(filename) == Name(filename.base, "jpg", FALSE)

(* The files of UPLOAD_DIR that Image.open decodes *)
Decodable(files) == {n \in DOMAIN files : files[n].ok}

OutNames(files) == {out_name(n) : n \in Decodable(files)}

(* os.listdir gives the files in an order of its own.  Two files with one   *)
(* out_name write the same output path, and the one listed last stays: win  *)
(* names, for each output name, that file.                                  *)
RECURSIVE WinnersOf(_, _)
WinnersOf(outs, files) ==
    IF outs = {} THEN {NoFiles}
    ELSE LET o == CHOOSE x \in outs : TRUE
         IN  {Overwrite(win, o :> n) :
                 win \in WinnersOf(outs \ {o}, files),
                 n \in {m \in Decodable(files) : out_name(m) = o}}

Winners(files) == WinnersOf(OutNames(files), files)

(* The loops of lines 529-557 over the platforms and the listed files:      *)
(* what they write under PROCESSED_DIR.                                     *)
Outputs(files, platforms, win) ==
    LET ps == {platforms[i] : i \in 1..Len(platforms)}
    IN  [k \in ps \X OutNames(files) |-> Pipeline(files[win[k[2]]], k[1])]

ProcessAll(pdir, files, platforms, win) ==
    [exists  |-> TRUE,
     folders |-> pdir.folders \cup {platforms[i] : i \in 1..Len(platforms)},
     files   |-> Overwrite(pdir.files, Outputs(files, platforms, win))]

(* The os.walk of lines 564-570: every file of PROCESSED_DIR, under         *)
(* parent_folder/<folder>/<name>.                                           *)
ZipEntries(pdir) ==
    {[platform |-> k[1], name |-> k[2], img |-> pdir.files[k]] : k \in DOMAIN pdir.files}

----------------------------------------------------------------------------
(* The requests the clients send *)

PhotoA == Upload(Name(1, "png", FALSE), TRUE, MaxDim, MERCARI_SIZE, "RGBA", 1)

PhotoA2 == Upload(Name(1, "jpg", FALSE), TRUE, MaxDim, MERCARI_SIZE, "RGB", 6)

PhotoB == Upload(Name(2, "png", FALSE), TRUE, POSHMARK_SIZE, POSHMARK_SIZE, "RGB", 1)

Corrupt == Upload(Name(3, "png", FALSE), FALSE, 0, 0, "", 1)

PhotoSub == Upload(Name(4, "png", TRUE), TRUE, MaxDim, MERCARI_SIZE, "RGB", 1)

FilePool == {PhotoA, PhotoA2, PhotoB, Corrupt, PhotoSub}

(* files: one; two; two with one base name; one filename twice; a corrupt   *)
(* file alone, after and before good ones; a filename with a directory      *)
FileLists ==
    {<<PhotoA>>, <<PhotoA, PhotoB>>, <<PhotoA, PhotoA2>>, <<PhotoB, PhotoB>>,
     <<Corrupt>>, <<PhotoA, Corrupt>>, <<Corrupt, PhotoB, PhotoA>>,
     <<PhotoA2, Corrupt, PhotoA>>, <<PhotoA, PhotoSub>>, <<PhotoSub>>}

(* platforms: absent, empty, one, two, one twice, unrecognized *)
PlatformLists ==
    {NonePlatforms, <<>>, <<"ebay">>, <<"poshmark", "ebay">>, <<"mercari", "mercari">>,
     <<"etsy">>, <<"ebay", "etsy">>}

(* What two clients at once send *)
ConcurrentFileLists == {<<PhotoA>>, <<PhotoB>>, <<PhotoA, PhotoB>>, <<PhotoB, Corrupt>>}

ConcurrentPlatformLists == {NonePlatforms, <<>>, <<"ebay">>, <<"poshmark">>, <<"ebay", "poshmark">>}

ShoeTitle == <<"M", "y", " ", " ", "S", "h", "o", "e", "!", "!">>

(* A batch of n photographs img1.png .. imgn.png *)
BigBatch(n) ==
    [i \in 1..n |-> Upload(Name(i, "png", FALSE), TRUE, POSHMARK_SIZE, POSHMARK_SIZE, "RGB", 1)]

----------------------------------------------------------------------------
(* The /process handler: lines 502-581 *)

InitProcess ==
    /\ pc = [c \in Clients |-> "idle"]
    /\ req = [c \in Clients |-> NoReq]
    /\ idx = [c \in Clients |-> 0]
    /\ handle = [c \in Clients |-> NoHandle]
    /\ resp = [c \in Clients |-> NoResp]
    /\ touched = [c \in Clients |-> FALSE]
    /\ found = [c \in Clients |-> {}]
    /\ uploadDir = NoDir
    /\ processedDir = NoDir
    /\ started = 0

Init ==
    /\ InitProcess
    /\ rz = <<>>
    /\ sl = <<>>

(* Lines 528-581: no await is left; the pairs are processed, the archive is *)
(* built from what PROCESSED_DIR then holds, and the response is returned.  *)
ProcessAndZip(c, udir, pdir, hs, rs) ==
    \E win \in Winners(udir.files) :
        LET pdir2 == ProcessAll(pdir, udir.files, req'[c].platforms, win)
        IN  /\ uploadDir' = udir
            /\ processedDir' = pdir2
            /\ handle' = hs
            /\ idx' = [idx EXCEPT ![c] = 0]
            /\ pc' = [pc EXCEPT ![c] = "done"]
            /\ resp' = [rs EXCEPT ![c] =
                   [status |-> 200,
                    parent |-> slugify_title(IF req'[c].item_title \in {NoTitle, <<>>}
                                             THEN Batch ELSE req'[c].item_title),
                    entries |-> ZipEntries(pdir2)]]

(* The save loop of lines 523-526 from upload i on, up to the next await:   *)
(* the file is opened for writing (created, or truncated if it is there)    *)
(* and the handler waits for f.read().  An open that raises ends the        *)
(* request with the framework's 500 response.                               *)
SaveFrom(c, i, udir, pdir, hs, rs) ==
    IF i > Len(req'[c].files)
    THEN ProcessAndZip(c, udir, pdir, hs, rs)
    ELSE IF req'[c].files[i].name.sub
    THEN /\ uploadDir' = udir
         /\ processedDir' = pdir
         /\ handle' = hs
         /\ idx' = [idx EXCEPT ![c] = 0]
         /\ pc' = [pc EXCEPT ![c] = "failed"]
         /\ resp' = [rs EXCEPT ![c] = [status |-> 500, parent |-> <<>>, entries |-> {}]]
    ELSE /\ uploadDir' = [udir EXCEPT
                !.files = Overwrite(@, req'[c].files[i].name :> EmptyFile)]
         /\ processedDir' = pdir
         /\ handle' = [hs EXCEPT ![c] =
                [open |-> TRUE, name |-> req'[c].files[i].name, linked |-> TRUE]]
         /\ idx' = [idx EXCEPT ![c] = i]
         /\ pc' = [pc EXCEPT ![c] = "saving"]
         /\ resp' = rs

(* `if platforms is None` in the place of line 508 *)
NoPlatformSelected_NoneOnly(platforms) == platforms = NonePlatforms

(* `if not platforms` of line 508 *)
NoPlatformSelected(platforms) == platforms = NonePlatforms \/ platforms = <<>>

(* rmtree removes the directory entries of the files the other handlers     *)
(* hold open.                                                               *)
Unlinked(hs) == [d \in Clients |-> [hs[d] EXCEPT !.linked = FALSE]]

(* The request with which client c calls the handler; its answer to the     *)
(* previous request has been sent.                                          *)
Received(c, files, platforms, item_title) ==
    /\ pc[c] \in {"idle", "done", "rejected", "failed"}
    /\ started < MaxRequests
    /\ started' = started + 1
    /\ req' = [req EXCEPT ![c] = [id |-> started + 1, files |-> files,
                                  platforms |-> platforms, item_title |-> item_title]]

(* The requests that own a file of the two staging directories *)
Owners(udir, pdir) ==
    {udir.files[n].owner : n \in DOMAIN udir.files}
        \cup {pdir.files[k].owner : k \in DOMAIN pdir.files}

(* Lines 508-526, up to the first await. *)
Start(c, files, platforms, item_title) ==
    /\ Received(c, files, platforms, item_title)
    /\ found' = [found EXCEPT ![c] = Owners(uploadDir, processedDir)]
    /\ IF NoPlatformSelected(platforms)
       THEN /\ pc' = [pc EXCEPT ![c] = "rejected"]
            /\ resp' = [resp EXCEPT ![c] = [status |-> 400, parent |-> <<>>, entries |-> {}]]
            /\ touched' = [touched EXCEPT ![c] = FALSE]
            /\ UNCHANGED <<idx, handle, uploadDir, processedDir>>
       ELSE /\ touched' = [touched EXCEPT ![c] = TRUE]
            /\ SaveFrom(c, 1, CleanDir(uploadDir), CleanDir(processedDir),
                        Unlinked(handle), [resp EXCEPT ![c] = NoResp])
    /\ UNCHANGED <<rz, sl>>

(* Line 526 after the await: the bytes read are written to the open file,   *)
(* which is closed, and the loop goes on.                                   *)
Resume(c) ==
    /\ pc[c] = "saving"
    /\ UNCHANGED <<req, touched, found, started, rz, sl>>
    /\ LET h == handle[c]
           b == Bytes(req[c].id, idx[c], req[c].files[idx[c]])
           udir == IF h.linked
                   THEN [uploadDir EXCEPT !.files = Overwrite(@, h.name :> b)]
                   ELSE uploadDir
       IN  SaveFrom(c, idx[c] + 1, udir, processedDir,
                    [handle EXCEPT ![c] = NoHandle], resp)

(* Concurrent clients *)
StartAny(c) ==
    \E files \in ConcurrentFileLists, platforms \in ConcurrentPlatformLists :
        Start(c, files, platforms, NoTitle)

Next == \E c \in Clients : StartAny(c) \/ Resume(c)

Spec == Init /\ [][Next]_vars

(* One client, one request after the other *)
StartSeq ==
    \E files \in FileLists, platforms \in PlatformLists :
        Start("c1", files, platforms, ShoeTitle)

NextSeq == StartSeq \/ Resume("c1")

SpecSeq == Init /\ [][NextSeq]_vars

(* One client whose batches are as large as the maximum, and larger *)
StartBig ==
    \E n \in MAX_IMAGES..(MAX_IMAGES + 1), platforms \in PlatformLists :
        Start("c1", BigBatch(n), platforms, NoTitle)

NextBig == StartBig \/ Resume("c1")

SpecBig == Init /\ [][NextBig]_vars

----------------------------------------------------------------------------
(* slugify_title on its own: a title, its slug, and the slug of the slug *)

TitleChars == {"a", "7", " ", "_", "-", "!", "\t"}

Titles ==
    UNION {[1..n -> TitleChars] : n \in 0..MaxLen}
        \cup {NoTitle, ShoeTitle, <<"_", "_", "_">>}

InitSlug ==
    /\ InitProcess
    /\ rz = <<>>
    /\ sl \in {[title |-> t, out |-> <<>>, again |-> <<>>, at |-> "title"] : t \in Titles}

Slugify ==
    /\ sl.at = "title"
    /\ sl' = [sl EXCEPT !.out = slugify_title(sl.title), !.at = "slug"]
    /\ UNCHANGED <<procVars, rz>>

SlugifyAgain ==
    /\ sl.at = "slug"
    /\ sl' = [sl EXCEPT !.again = slugify_title(sl.out), !.at = "slug2"]
    /\ UNCHANGED <<procVars, rz>>

NextSlug == Slugify \/ SlugifyAgain

SpecSlug == InitSlug /\ [][NextSlug]_vars

----------------------------------------------------------------------------
(* resize_for_platform on its own *)

Targets == {EBAY_SIZE, POSHMARK_SIZE, MERCARI_SIZE}

(* The sampled dimensions: every DimStep-th, and those at and around each   *)
(* target and its double.                                                   *)
Dims ==
    {d \in 1..MaxDim :
        \/ d % DimStep = 1
        \/ d \in 1..3
        \/ \E t \in Targets : d \in (t - 1)..(t + 1) \/ d \in (2 * t)..(2 * t + 1)}

InitResize ==
    /\ InitProcess
    /\ sl = <<>>
    /\ rz \in {[image |-> [w |-> w, h |-> h], platform |-> p,
                out |-> [w |-> 0, h |-> 0], at |-> "in"] :
                  w \in Dims, h \in Dims, p \in Recognized \cup {"etsy"}}

Resize ==
    /\ rz.at = "in"
    /\ rz' = [rz EXCEPT !.out = resize_for_platform(rz.image, rz.platform), !.at = "out"]
    /\ UNCHANGED <<procVars, sl>>

NextResize == Resize

SpecResize == InitResize /\ [][NextResize]_vars

----------------------------------------------------------------------------
(* What the claims speak of *)

PlatformSet(r) == {r.platforms[i] : i \in 1..Len(r.platforms)}

Good(r) == {i \in 1..Len(r.files) : r.files[i].ok}

AllDecode(r) == Good(r) = 1..Len(r.files)

(* The entries of r's archive that come from upload i of r for platform p,  *)
(* under the subfolder p                                                    *)
EntriesOf(entries, r, p, i) ==
    {e \in entries : e.platform = p /\ e.img.owner = r.id /\ e.img.idx = i}

(* The archive a request is owed: for each platform asked for and each of   *)
(* its uploads that decodes, the output of the pipeline on that upload.     *)
OwnArchive(r) ==
    {[platform |-> p, name |-> out_name(r.files[i].name),
      img |-> Pipeline(Bytes(r.id, i, r.files[i]), p)] :
        p \in PlatformSet(r), i \in Good(r)}

(* C1. Archive completeness: a finished request all of whose N files decode *)
(* returns an archive of exactly N*P entries, exactly one for each          *)
(* (platform, uploaded file) pair, under the subfolder of its platform.     *)
C1_ArchiveComplete ==
    \A c \in Clients :
        (pc[c] = "done" /\ AllDecode(req[c])) =>
            /\ Cardinality(resp[c].entries)
                   = Len(req[c].files) * Cardinality(PlatformSet(req[c]))
            /\ \A p \in PlatformSet(req[c]), i \in 1..Len(req[c].files) :
                   Cardinality(EntriesOf(resp[c].entries, req[c], p, i)) = 1

(* C2. Partial-failure isolation: a request in which exactly one upload     *)
(* cannot be decoded ends with an archive, which holds an entry for every   *)
(* (platform, file) pair of the other uploads and none for the corrupt one. *)
C2_PartialFailureIsolated ==
    \A c \in Clients :
        (pc[c] \in {"done", "failed"}
            /\ Cardinality((1..Len(req[c].files)) \ Good(req[c])) = 1) =>
            /\ pc[c] = "done"
            /\ \A p \in PlatformSet(req[c]), i \in 1..Len(req[c].files) :
                   IF i \in Good(req[c])
                   THEN EntriesOf(resp[c].entries, req[c], p, i) # {}
                   ELSE EntriesOf(resp[c].entries, req[c], p, i) = {}

(* C3. Request isolation under concurrency: each archive returned holds     *)
(* exactly the outputs derived from its own request's uploads and           *)
(* platforms, whatever another request does in between.                     *)
C3_RequestsIsolated ==
    \A c \in Clients : pc[c] = "done" => resp[c].entries = OwnArchive(req[c])

(* C4. A request whose platform set is absent or empty is rejected before   *)
(* any work: the step that takes it up answers 400 and leaves both staging  *)
(* directories and every open file as they were, and the request never is   *)
(* at saving or done.                                                       *)
AbsentOrEmpty(platforms) == platforms = NonePlatforms \/ Len(platforms) = 0

C4_NoPlatformRejected ==
    /\ [](\A c \in Clients :
            (req[c] # NoReq /\ AbsentOrEmpty(req[c].platforms)) =>
                /\ pc[c] = "rejected"
                /\ ~touched[c]
                /\ resp[c] = [status |-> 400, parent |-> <<>>, entries |-> {}])
    /\ [][\A c \in Clients :
            (req'[c] # req[c] /\ AbsentOrEmpty(req'[c].platforms)) =>
                /\ uploadDir' = uploadDir
                /\ processedDir' = processedDir
                /\ handle' = handle]_vars

(* A request without platforms is rejected while the staging directories    *)
(* hold another request's upload and outputs.                               *)
C4_Witness ==
    \E c \in Clients :
        /\ pc[c] = "rejected"
        /\ req[c].platforms = <<>>
        /\ uploadDir.files # NoFiles
        /\ processedDir.files # NoFiles
        /\ \E d \in Clients : pc[d] = "saving"

(* C5. A request with more than MAX_IMAGES uploads is rejected, and none of *)
(* its images is staged or processed.                                       *)
C5_ImageCountBounded ==
    \A c \in Clients :
        Len(req[c].files) > MAX_IMAGES => (pc[c] = "rejected" /\ ~touched[c])

(* C6. A request naming a platform outside {ebay, poshmark, mercari} is     *)
(* rejected before any pair is processed, and no output folder or archive   *)
(* entry exists for such a platform.                                        *)
C6_UnknownPlatformRejected ==
    /\ \A c \in Clients :
           (req[c] # NoReq /\ ~(PlatformSet(req[c]) \subseteq Recognized)) =>
               (pc[c] = "rejected" /\ ~touched[c])
    /\ processedDir.folders \subseteq Recognized
    /\ \A c \in Clients : \A e \in resp[c].entries : e.platform \in Recognized

(* The targets as the claim gives them *)
TargetOf(platform) ==
    CASE platform = "ebay" -> 1600
      [] platform = "poshmark" -> 1080
      [] platform = "mercari" -> 1200

(* C7 as stated. Resize exactness: for a recognized platform the output is  *)
(* exactly target x target.                                                 *)
C7_ResizeExact ==
    (rz.at = "out" /\ rz.platform \in Recognized) =>
        (rz.out.w = TargetOf(rz.platform) /\ rz.out.h = TargetOf(rz.platform))

(* C7 as amended. For a recognized platform the output is at most target x  *)
(* target, and exactly target x target when the input is square with a side *)
(* of at least the target.                                                  *)
C7_ResizeWithinTarget ==
    (rz.at = "out" /\ rz.platform \in Recognized) =>
        LET t == TargetOf(rz.platform)
        IN  /\ rz.out.w <= t
            /\ rz.out.h <= t
            /\ (rz.image.w = rz.image.h /\ rz.image.w >= t) =>
                   (rz.out.w = t /\ rz.out.h = t)

(* A square picture larger than eBay's target has come out at the target,   *)
(* and the run also brought a wide one down to it.                          *)
C7_Witness ==
    /\ rz.at = "out"
    /\ rz.platform = "ebay"
    /\ rz.image.w = rz.image.h
    /\ rz.image.w > EBAY_SIZE
    /\ rz.out = [w |-> EBAY_SIZE, h |-> EBAY_SIZE]

(* The slug as the claim describes it, written over the positions of the    *)
(* title: trim, space to underscore, drop what is outside the class, drop   *)
(* an underscore that follows an underscore, trim underscores.              *)
Trimmed(t, cs) ==
    LET keep == {i \in 1..Len(t) : t[i] \notin cs}
    IN  IF keep = {} THEN <<>>
        ELSE SubSeq(t, CHOOSE i \in keep : \A j \in keep : i <= j,
                       CHOOSE i \in keep : \A j \in keep : i >= j)

Picked(t, keep) ==
    [k \in 1..Cardinality(keep) |->
        t[CHOOSE i \in keep : Cardinality({j \in keep : j <= i}) = k]]

CleanTitle(title) ==
    LET t1 == Trimmed(title, Whitespace)
        t2 == [i \in 1..Len(t1) |-> IF t1[i] = " " THEN "_" ELSE t1[i]]
        t3 == Picked(t2, {i \in 1..Len(t2) : t2[i] \in SlugChars})
        t4 == Picked(t3, {i \in 1..Len(t3) : ~(i > 1 /\ t3[i] = "_" /\ t3[i - 1] = "_")})
    IN  Trimmed(t4, {"_"})

My_Shoe == <<"M", "y", "_", "S", "h", "o", "e">>

(* C8. Slugification: the slug is not empty, is made of [A-Za-z0-9_-] only, *)
(* has no two underscores in a row and none at either end, is the cleaned   *)
(* title or "Batch" when that is empty ("My  Shoe!!" gives "My_Shoe", ""    *)
(* and "___" give "Batch"), and is its own slug.                            *)
C8_Slugify ==
    sl.at \in {"slug", "slug2"} =>
        LET o == sl.out
            clean == CleanTitle(IF sl.title = NoTitle THEN <<>> ELSE sl.title)
        IN  /\ o # <<>>
            /\ \A i \in 1..Len(o) : o[i] \in SlugChars
            /\ \A i \in 1..(Len(o) - 1) : ~(o[i] = "_" /\ o[i + 1] = "_")
            /\ o[1] # "_" /\ o[Len(o)] # "_"
            /\ o = (IF clean = <<>> THEN Batch ELSE clean)
            /\ sl.title = ShoeTitle => o = My_Shoe
            /\ sl.title \in {<<>>, <<"_", "_", "_">>} => o = Batch
            /\ sl.at = "slug2" => sl.again = o

(* "My  Shoe!!" has been slugified twice. *)
C8_Witness ==
    sl.at = "slug2" /\ sl.title = ShoeTitle /\ sl.out = My_Shoe /\ sl.again = My_Shoe

(* C9. Run to completion: no request ends with an error after it has        *)
(* deleted, created or written staging state.                               *)
C9_RunToCompletion ==
    \A c \in Clients : touched[c] => pc[c] \in {"saving", "done"}

(* The stage of the design each operation of the code belongs to *)
StageOf(op) ==
    CASE op \in {"exif_transpose", "convert"} -> "orientation"
      [] op \in {"Brightness", "Contrast", "Sharpness"} -> "tone"
      [] op = "resize_for_platform" -> "resizing"
      [] op = "save" -> "encoding"
      [] OTHER -> op

RECURSIVE Stages(_)
Stages(hist) ==
    IF hist = <<>> THEN <<>>
    ELSE LET rest == Stages(Tail(hist))
         IN  IF rest # <<>> /\ Head(rest) = StageOf(Head(hist)) THEN rest
             ELSE <<StageOf(Head(hist))>> \o rest

(* Every image written under PROCESSED_DIR or returned in an archive *)
Encoded ==
    {processedDir.files[k] : k \in DOMAIN processedDir.files}
        \cup UNION {{e.img : e \in resp[c].entries} : c \in Clients}

C11_BoundedResize ==
    rz.at = "out" =>
        LET w == rz.image.w
            h == rz.image.h
        IN  IF rz.platform \in {"ebay", "poshmark", "mercari"}
            THEN LET t == TargetOf(rz.platform)
                 IN  /\ rz.out.w <= w /\ rz.out.w <= t
                     /\ rz.out.h <= h /\ rz.out.h <= t
                     /\ rz.out.w >= 1 /\ rz.out.h >= 1
                     /\ (w <= t /\ h <= t) => rz.out = rz.image
                     /\ (w > t /\ w >= h) =>
                            /\ rz.out.w = t
                            /\ Abs(rz.out.h * w - t * h) < w
                     /\ (h > t /\ h >= w) =>
                            /\ rz.out.h = t
                            /\ Abs(rz.out.w * h - t * w) < h
            ELSE rz.out = rz.image

(* A wide picture has been brought down to Poshmark's target, its height    *)
(* rounded.                                                                 *)
C11_Witness ==
    /\ rz.at = "out"
    /\ rz.platform = "poshmark"
    /\ rz.image.w > POSHMARK_SIZE
    /\ rz.image.h < rz.image.w
    /\ rz.out.w = POSHMARK_SIZE
    /\ rz.out.h < POSHMARK_SIZE
    /\ rz.out.h * rz.image.w # POSHMARK_SIZE * rz.image.h

(* C12. No carry-over between sequential requests: with one request after  *)
(* the other, every entry of a returned archive comes from an upload of its *)
(* own request and lies under a platform that request asked for, whatever   *)
(* earlier requests left in the staging directories.                        *)
C12_NoCarryOver ==
    \A c \in Clients :
        pc[c] = "done" =>
            \A e \in resp[c].entries :
                /\ e.img.owner = req[c].id
                /\ e.img.idx \in Good(req[c])
                /\ e.platform \in PlatformSet(req[c])

(* A request that came in while staging held an earlier request's files     *)
(* has returned an archive that is not empty.                               *)
C12_Witness ==
    \E c \in Clients :
        /\ pc[c] = "done"
        /\ resp[c].entries # {}
        /\ \E o \in found[c] : o # 0 /\ o # req[c].id
        /\ \E k \in DOMAIN processedDir.files : processedDir.files[k].owner = req[c].id

====
